---------------------------- MODULE Spec2Model ----------------------------
(***************************************************************************)
(* A model of the Analyzer class of first_class_analyzer.py: construction  *)
(* (source-kind resolution and content loading), the tokenizer, the        *)
(* statistics operations and the positivity score.                         *)
(*                                                                         *)
(* Python strings are sequences of one-character strings.  The backing     *)
(* file or remote page is not a variable: every operation that reads it    *)
(* takes the body it finds there (or Missing) as an input, so the          *)
(* environment may change the resource arbitrarily between two calls.      *)
(***************************************************************************)
EXTENDS Integers, Sequences, FiniteSets, TLC

(***************************************************************************)
(* Bounds of the model.                                                    *)
(***************************************************************************)
\* longest inline text given to the constructor
MaxLen == 3
\* longest body of the file / page when the Analyzer is constructed
MaxFileLen == 3
\* longest body the environment writes to the file / page afterwards
MaxRewriteLen == 1

(***************************************************************************)
(* Characters.                                                             *)
(***************************************************************************)
Alphabet == {"a", "A", "b", ".", " "}
FileAlphabet == {"a", "A", " "}
RewriteAlphabet == {"b"}

\* the characters of string.whitespace / string.punctuation that occur in
\* the model's inputs
Whitespace == {" "}
punctuation == {".", "/", ":", "\\", "-"}

LowerLetters == {"a", "b", "h", "p", "t", "x"}
UpperLetters == {"A", "B", "H", "P", "T", "X"}

ToLower == ("A" :> "a") @@ ("B" :> "b") @@ ("H" :> "h") @@
           ("P" :> "p") @@ ("T" :> "t") @@ ("X" :> "x")
ToUpper == ("a" :> "A") @@ ("b" :> "B") @@ ("h" :> "H") @@
           ("p" :> "P") @@ ("t" :> "T") @@ ("x" :> "X")

\* str.isalpha, str.lower, str.upper on one character
isalpha(c) == c \in LowerLetters \cup UpperLetters
lowerChar(c) == IF c \in DOMAIN ToLower THEN ToLower[c] ELSE c
upperChar(c) == IF c \in DOMAIN ToUpper THEN ToUpper[c] ELSE c

\* str.lower, str.upper
lower(s) == [i \in 1..Len(s) |-> lowerChar(s[i])]
upper(s) == [i \in 1..Len(s) |-> upperChar(s[i])]

\* str.startswith, str.endswith, the `in` operator on a one-character needle
startswith(s, p) == Len(s) >= Len(p) /\ SubSeq(s, 1, Len(p)) = p
endswith(s, p) == Len(s) >= Len(p) /\ SubSeq(s, Len(s) - Len(p) + 1, Len(s)) = p
contains(s, c) == \E i \in 1..Len(s) : s[i] = c

(***************************************************************************)
(* str.split() and str.strip(chars).                                       *)
(***************************************************************************)
RECURSIVE SplitAcc(_, _, _)
SplitAcc(s, cur, acc) ==
    IF s = <<>>
    THEN IF cur = <<>> THEN acc ELSE Append(acc, cur)
    ELSE IF Head(s) \in Whitespace
         THEN SplitAcc(Tail(s), <<>>, IF cur = <<>> THEN acc ELSE Append(acc, cur))
         ELSE SplitAcc(Tail(s), Append(cur, Head(s)), acc)

\* str.split() without arguments: runs of whitespace separate, no empty fragment
split(s) == SplitAcc(s, <<>>, <<>>)

RECURSIVE lstrip(_, _)
lstrip(w, chars) ==
    IF w # <<>> /\ Head(w) \in chars THEN lstrip(Tail(w), chars) ELSE w

RECURSIVE rstrip(_, _)
rstrip(w, chars) ==
    IF w # <<>> /\ w[Len(w)] \in chars
    THEN rstrip(SubSeq(w, 1, Len(w) - 1), chars)
    ELSE w

strip(w, chars) == rstrip(lstrip(w, chars), chars)

(***************************************************************************)
(* collections.Counter: a sequence of <<item, count>> pairs in the order   *)
(* the items were first met (a dict keeps insertion order).                *)
(***************************************************************************)
RECURSIVE CounterAdd(_, _)
CounterAdd(c, x) ==
    IF c = <<>> THEN << <<x, 1>> >>
    ELSE IF Head(c)[1] = x
         THEN << <<x, Head(c)[2] + 1>> >> \o Tail(c)
         ELSE << Head(c) >> \o CounterAdd(Tail(c), x)

RECURSIVE Counter(_)
Counter(items) ==
    IF items = <<>> THEN <<>>
    ELSE CounterAdd(Counter(SubSeq(items, 1, Len(items) - 1)), items[Len(items)])

\* the place of a pair in a list sorted by descending key, behind every
\* pair whose key is not smaller: a stable sort
RECURSIVE InsertDesc(_, _, _)
InsertDesc(sorted, p, k) ==
    IF sorted = <<>> THEN << p >>
    ELSE IF k > Head(sorted)[3]
         THEN << p >> \o sorted
         ELSE << Head(sorted) >> \o InsertDesc(Tail(sorted), p, k)

RECURSIVE SortKeyed(_)
SortKeyed(keyed) ==
    IF keyed = <<>> THEN <<>>
    ELSE LET n == Len(keyed)
             p == keyed[n]
         IN InsertDesc(SortKeyed(SubSeq(keyed, 1, n - 1)), p, p[3])

\* sorted(pairs, key=lambda item: item[1], reverse=True)
SortedByCountDesc(pairs) ==
    LET keyed == [i \in 1..Len(pairs) |-> <<pairs[i][1], pairs[i][2], pairs[i][2]>>]
        s == SortKeyed(keyed)
    IN [i \in 1..Len(s) |-> <<s[i][1], s[i][2]>>]

\* sorted(pairs, key=lambda item: [1], reverse=True): every key is the list [1]
SortedByConstantDesc(pairs) ==
    LET keyed == [i \in 1..Len(pairs) |-> <<pairs[i][1], pairs[i][2], 1>>]
        s == SortKeyed(keyed)
    IN [i \in 1..Len(s) |-> <<s[i][1], s[i][2]>>]

\* Counter.most_common(n)
most_common(c, n) ==
    LET s == SortedByCountDesc(c)
    IN SubSeq(s, 1, IF n < Len(s) THEN n ELSE Len(s))


(***************************************************************************)
(* Values.  None as a content, the absent file, and the values the         *)
(* operations return, tagged by their Python type.                         *)
(***************************************************************************)
NoneStr == << "None" >>
\* the file does not exist / the page cannot be fetched
Missing == << "ENOENT" >>
\* the operation reads no file
NotRead == << "-" >>

NoneR == [tag |-> "None", val |-> 0]
IntR(n) == [tag |-> "int", val |-> n]
StrR(s) == [tag |-> "str", val |-> s]
ListR(l) == [tag |-> "list", val |-> l]
\* a float rounded to two decimals, in hundredths
FloatR(h) == [tag |-> "float", val |-> h]
\* the float n / d * 1000
PerMilleR(n, d) == [tag |-> "permille", val |-> <<n, d>>]
ErrR(e) == [tag |-> "error", val |-> e]

\* round(sum / n, 2) in hundredths.  The quotient is never halfway between
\* two hundredths for n < 8, so the rounding mode does not matter here.
round2(sum, n) == (200 * sum + n) \div (2 * n)

(***************************************************************************)
(* The Analyzer object: a record of its attributes.                        *)
(***************************************************************************)
\* auto-discovery that looks for a path before it looks for a URL
ResolveKindPathFirst(src, src_type) ==
    IF src_type = "discover"
    THEN IF \/ endswith(src, <<".", "t", "x", "t">>)
            \/ contains(src, "/")
            \/ contains(src, "\\")
         THEN "path"
         ELSE IF startswith(src, <<"h", "t", "t", "p">>)
              THEN "url"
              ELSE "text"
    ELSE src_type

\* lines 27-33: the effective kind of a source
ResolveKind(src, src_type) ==
    IF src_type = "discover"
    THEN IF startswith(src, <<"h", "t", "t", "p">>)
         THEN "url"
         ELSE IF \/ endswith(src, <<".", "t", "x", "t">>)
                 \/ contains(src, "/")
                 \/ contains(src, "\\")
              THEN "path"
              ELSE "text"
    ELSE src_type

\* requests.get(url).text after raise_for_status(); ext is what the
\* environment serves for the URL
_fetch_from_url(url, ext) ==
    IF ext = Missing THEN [ok |-> FALSE, val |-> "RetrievalError"]
    ELSE [ok |-> TRUE, val |-> ext]

\* open(file_path).read(); ext is what the environment holds at the path
_read_from_file(file_path, ext) ==
    IF ext = Missing THEN [ok |-> FALSE, val |-> "ReadError"]
    ELSE [ok |-> TRUE, val |-> ext]

\* Analyzer(src, src_type=...): [ok, self, err]
__init__(src, src_type, ext) ==
    LET kind == ResolveKind(src, src_type)
        loaded == IF kind = "url" THEN _fetch_from_url(src, ext)
                  ELSE IF kind = "path" THEN _read_from_file(src, ext)
                  ELSE IF kind = "text" THEN [ok |-> TRUE, val |-> src]
                  ELSE [ok |-> FALSE, val |-> "ValueError"]
    IN IF loaded.ok
       THEN [ok |-> TRUE, err |-> "",
             self |-> [src |-> src, src_type |-> src_type, _src_type |-> kind,
                       _content |-> loaded.val, _orig_content |-> loaded.val]]
       ELSE [ok |-> FALSE, err |-> loaded.val,
             self |-> [src |-> src, src_type |-> src_type, _src_type |-> kind,
                       _content |-> NoneStr, _orig_content |-> src]]

\* set_content_to_tag: the attribute _original_content is read first, and
\* no Analyzer has it; with it, the search is for an element named "tag" of
\* class "id=tag_id" whatever the arguments, which no document here holds
set_content_to_tag(self, tag, tag_id) ==
    IF "_original_content" \notin DOMAIN self
    THEN [self |-> self, res |-> ErrR("AttributeError")]
    ELSE [self |-> [self EXCEPT !._content = <<>>], res |-> NoneR]

reset_content(self) ==
    LET s == [self EXCEPT !._content = self._orig_content]
    IN [self |-> s, res |-> StrR(s._content)]

\* _words: the fragments of the ORIGINAL content, stripped (and lowered)
_words(self, casesensitive) ==
    IF self._content = NoneStr THEN NoneStr
    ELSE LET words == split(self._orig_content)
         IN IF ~casesensitive
            THEN [i \in 1..Len(words) |-> lower(strip(words[i], punctuation))]
            ELSE [i \in 1..Len(words) |-> strip(words[i], punctuation)]

\* lines 99-103 and 106-110: the two branches hold the same code
CommonWordsOf(words, minlen, maxlen, count) ==
    LET filtered_words == SelectSeq(words, LAMBDA w : minlen <= Len(w) /\ Len(w) <= maxlen)
        word_counts == Counter(filtered_words)
        most_common_words == most_common(word_counts, count)
    IN [i \in 1..Len(most_common_words) |->
            <<upper(most_common_words[i][1]), most_common_words[i][2]>>]

common_words(self, minlen, maxlen, count) ==
    IF self._src_type = "text"
    THEN [self |-> self,
          res |-> ListR(CommonWordsOf(_words(self, FALSE), minlen, maxlen, count))]
    ELSE IF self._src_type = "path"
    THEN [self |-> self,
          res |-> ListR(CommonWordsOf(_words(self, FALSE), minlen, maxlen, count))]
    ELSE [self |-> self, res |-> NoneR]

\* line 118: keep a character unless letters_only asks for letters and it is none
KeepText(c, letters_only) == ~letters_only \/ isalpha(c)
\* line 125: the same test with the negation missing
KeepPath(c, letters_only) == letters_only \/ isalpha(c)

char_distribution(self, ext, casesensitive, letters_only) ==
    IF self._src_type = "text"
    THEN LET content == IF casesensitive THEN self._orig_content
                        ELSE lower(self._orig_content)
             char_counts == Counter(SelectSeq(content, LAMBDA c : KeepText(c, letters_only)))
         IN [self |-> self, res |-> ListR(SortedByCountDesc(char_counts))]
    ELSE IF self._src_type = "path"
    THEN LET read == _read_from_file(self.src, ext)
         IN IF ~read.ok THEN [self |-> self, res |-> ErrR(read.val)]
            ELSE LET content == IF casesensitive THEN read.val ELSE lower(read.val)
                     char_counts == Counter(SelectSeq(content, LAMBDA c : KeepPath(c, letters_only)))
                 IN [self |-> self, res |-> ListR(SortedByConstantDesc(char_counts))]
    ELSE [self |-> self, res |-> NoneR]

RECURSIVE SumLen(_)
SumLen(words) == IF words = <<>> THEN 0 ELSE Len(Head(words)) + SumLen(Tail(words))

avg_word_length(self) ==
    IF self._src_type = "text"
    THEN LET s == [self EXCEPT !._content = self._orig_content]
             words == _words(s, FALSE)
         IN IF words # <<>>
            THEN [self |-> s, res |-> FloatR(round2(SumLen(words), Len(words)))]
            ELSE [self |-> s, res |-> FloatR(0)]
    ELSE IF self._src_type = "path"
    THEN LET words == _words(self, FALSE)
         IN IF words # <<>>
            THEN [self |-> self, res |-> FloatR(round2(SumLen(words), Len(words)))]
            ELSE [self |-> self, res |-> FloatR(0)]
    ELSE [self |-> self, res |-> FloatR(0)]

word_count(self, ext) ==
    IF self._src_type = "text"
    THEN LET s == [self EXCEPT !._content = self._orig_content]
         IN [self |-> s, res |-> IntR(Len(_words(s, FALSE)))]
    ELSE IF self._src_type = "path"
    THEN LET read == _read_from_file(self.src, ext)
         IN IF ~read.ok THEN [self |-> self, res |-> ErrR(read.val)]
            ELSE LET s == [self EXCEPT !._content = read.val]
                 IN [self |-> s, res |-> IntR(Len(_words(s, FALSE)))]
    ELSE IF self._src_type = "url"
    THEN LET read == _fetch_from_url(self.src, ext)
         IN IF ~read.ok THEN [self |-> self, res |-> ErrR(read.val)]
            ELSE LET s == [self EXCEPT !._content = read.val]
                 IN [self |-> s, res |-> IntR(Len(_words(s, FALSE)))]
    ELSE [self |-> self, res |-> NoneR]

\* len(set(words))
DistinctCount(words) == Cardinality({words[i] : i \in 1..Len(words)})

distinct_word_count(self) ==
    IF self._src_type \in {"text", "path"}
    THEN [self |-> self, res |-> IntR(DistinctCount(_words(self, FALSE)))]
    ELSE [self |-> self, res |-> NoneR]

\* the property `words`
words(self, ext) ==
    IF self._src_type = "text"
    THEN LET s == [self EXCEPT !._content = self._orig_content]
         IN [self |-> s, res |-> ListR(_words(s, FALSE))]
    ELSE IF self._src_type = "path"
    THEN LET read == _read_from_file(self.src, ext)
         IN IF ~read.ok THEN [self |-> self, res |-> ErrR(read.val)]
            ELSE LET s == [self EXCEPT !._content = read.val]
                 IN [self |-> s, res |-> IntR(DistinctCount(_words(s, FALSE)))]
    ELSE [self |-> self, res |-> NoneR]

\* a tally that forgets the negative words
RECURSIVE TallyPositiveOnly(_, _, _)
TallyPositiveOnly(ws, positive_words, negative_words) ==
    IF ws = <<>> THEN 0
    ELSE (IF Head(ws) \in positive_words THEN 1 ELSE 0)
         + TallyPositiveOnly(Tail(ws), positive_words, negative_words)

\* line 240: +1 for a positive word, else -1 for a negative word, else 0
RECURSIVE Tally(_, _, _)
Tally(ws, positive_words, negative_words) ==
    IF ws = <<>> THEN 0
    ELSE (IF Head(ws) \in positive_words THEN 1
          ELSE IF Head(ws) \in negative_words THEN -1 ELSE 0)
         + Tally(Tail(ws), positive_words, negative_words)

\* positivity; the two word lists are what the lexicon files hold
positivity(self, ext, positive_words, negative_words) ==
    LET ws0 == _words(self, FALSE)
        ws == [i \in 1..Len(ws0) |-> lower(strip(ws0[i], punctuation))]
        tally == Tally(ws, positive_words, negative_words)
        wc == word_count(self, ext)
    IN IF wc.res.tag = "error" THEN wc
       ELSE IF wc.res.tag = "int" /\ wc.res.val > 0
            THEN [self |-> wc.self, res |-> PerMilleR(tally, wc.res.val)]
            ELSE [self |-> wc.self, res |-> IntR(0)]

(***************************************************************************)
(* Inputs.                                                                 *)
(***************************************************************************)
Seqs(A, n) == UNION {[1..k -> A] : k \in 0..n}

Texts == Seqs(Alphabet, MaxLen)
FileBodies == Seqs(FileAlphabet, MaxFileLen)
Rewrites == Seqs(RewriteAlphabet, MaxRewriteLen)

PathName == <<"a", ".", "t", "x", "t">>
UrlName == <<"h", "t", "t", "p", ":", "/", "/", "a">>
\* sources that exercise the auto-discovery rules
SrcNames == { PathName, UrlName,
              <<"h", "t", "t", "p", "a", "b">>,
              <<"a", "/", "b">>,
              <<"a", "\\", "b">>,
              <<"a", ".", "t", "x", "t", "/", "h", "t", "t", "p">>,
              <<"a", ".", "t", "x", "t", "b">>,
              <<"a", "h", "t", "t", "p">> }
DeclaredKinds == {"text", "path", "url", "discover", "html"}

MinLens == {0, 1}
MaxLens == {1, 2}
Counts == {0, 1, 2}
\* the positive and the negative word list hold lowercase words, and no
\* word is in both
PositiveWords == { <<"a">> }
NegativeWords == { <<"b">> }
Lexicons == (SUBSET PositiveWords) \X (SUBSET NegativeWords)
Tags == {"p"}
TagIds == {"x"}

(***************************************************************************)
(* State.                                                                  *)
(*   pc    "new" before construction, "live" with an Analyzer, "failed"    *)
(*         when the constructor raised                                     *)
(*   self  the Analyzer's attributes                                       *)
(*   born  the Analyzer as the constructor left it                         *)
(*   last  the last call: operation, arguments, the body it read from the  *)
(*         file or page (NotRead when it read none), and what it returned  *)
(***************************************************************************)
VARIABLES pc, self, born, last

vars == <<pc, self, born, last>>

NoSelf == [src |-> <<>>, src_type |-> "", _src_type |-> "",
           _content |-> NoneStr, _orig_content |-> NoneStr]

Init ==
    /\ pc = "new"
    /\ self = NoSelf
    /\ born = NoSelf
    /\ last = [op |-> "none", args |-> <<>>, read |-> NotRead, res |-> NoneR]

\* what a read of the file or page may find: the body it had at
\* construction, nothing, or a body written since
ExtNow == IF self._src_type = "text" THEN {NotRead}
          ELSE {self._orig_content, Missing} \cup Rewrites

Construct(src, src_type, ext) ==
    /\ pc = "new"
    /\ LET r == __init__(src, src_type, ext)
           s == IF r.ok THEN r.self ELSE NoSelf
       IN /\ pc' = IF r.ok THEN "live" ELSE "failed"
          /\ self' = s
          /\ born' = s
          /\ last' = [op |-> "__init__", args |-> <<src, src_type>>,
                      read |-> IF r.self._src_type \in {"path", "url"} THEN ext ELSE NotRead,
                      res |-> IF r.ok THEN NoneR ELSE ErrR(r.err)]

\* a call of an operation on the live Analyzer
Called(op, args, read, r) ==
    /\ self' = r.self
    /\ last' = [op |-> op, args |-> args, read |-> read, res |-> r.res]
    /\ UNCHANGED <<pc, born>>

NewText == \E src \in Texts : Construct(src, "text", NotRead)
NewPath == \E ext \in FileBodies \cup {Missing} : Construct(PathName, "path", ext)
NewUrl == \E ext \in FileBodies \cup {Missing} : Construct(UrlName, "url", ext)

\* any source with any declared kind
Resolve ==
    \E src \in Texts \cup SrcNames, src_type \in DeclaredKinds,
       ext \in {<<>>, <<"a">>, Missing} :
        Construct(src, src_type, ext)

SetContentToTag ==
    /\ pc = "live"
    /\ \E tag \in Tags, tag_id \in TagIds :
        Called("set_content_to_tag", <<tag, tag_id>>, NotRead,
               set_content_to_tag(self, tag, tag_id))

ResetContent ==
    /\ pc = "live"
    /\ Called("reset_content", <<>>, NotRead, reset_content(self))

CommonWords ==
    /\ pc = "live"
    /\ \E minlen \in MinLens, maxlen \in MaxLens, count \in Counts :
        Called("common_words", <<minlen, maxlen, count>>, NotRead,
               common_words(self, minlen, maxlen, count))

CharDistribution ==
    /\ pc = "live"
    /\ \E casesensitive \in BOOLEAN, letters_only \in BOOLEAN, ext \in ExtNow :
        Called("char_distribution", <<casesensitive, letters_only>>,
               IF self._src_type = "path" THEN ext ELSE NotRead,
               char_distribution(self, ext, casesensitive, letters_only))

AvgWordLength ==
    /\ pc = "live"
    /\ Called("avg_word_length", <<>>, NotRead, avg_word_length(self))

WordCount ==
    /\ pc = "live"
    /\ \E ext \in ExtNow :
        Called("word_count", <<>>, ext, word_count(self, ext))

DistinctWordCount ==
    /\ pc = "live"
    /\ Called("distinct_word_count", <<>>, NotRead, distinct_word_count(self))

Words ==
    /\ pc = "live"
    /\ \E ext \in ExtNow :
        Called("words", <<>>,
               IF self._src_type = "path" THEN ext ELSE NotRead,
               words(self, ext))

Positivity ==
    /\ pc = "live"
    /\ \E lex \in Lexicons, ext \in ExtNow :
        Called("positivity", lex, ext, positivity(self, ext, lex[1], lex[2]))

Next ==
    \/ NewText
    \/ NewPath
    \/ NewUrl
    \/ SetContentToTag
    \/ ResetContent
    \/ CommonWords
    \/ CharDistribution
    \/ AvgWordLength
    \/ WordCount
    \/ DistinctWordCount
    \/ Words
    \/ Positivity

Spec == Init /\ [][Next]_vars

\* construction alone, over every source and declared kind
SpecResolve == Init /\ [][Resolve]_vars

(***************************************************************************)
(* What the specification says, stated independently of the code.          *)
(***************************************************************************)
StatOps == {"common_words", "char_distribution", "word_count",
            "distinct_word_count", "avg_word_length", "positivity"}

\* the result of operation op with arguments args on Analyzer s, when a
\* read of the file or page finds ext
Call(s, ext, op, args) ==
    CASE op = "common_words" -> common_words(s, args[1], args[2], args[3])
      [] op = "char_distribution" -> char_distribution(s, ext, args[1], args[2])
      [] op = "word_count" -> word_count(s, ext)
      [] op = "distinct_word_count" -> distinct_word_count(s)
      [] op = "avg_word_length" -> avg_word_length(s)
      [] op = "positivity" -> positivity(s, ext, args[1], args[2])

SameResult(r, s) == r.tag = s.tag /\ r.val = s.val

\* the number of places of sequence q that hold x
Occurrences(x, q) == Cardinality({i \in 1..Len(q) : q[i] = x})

\* section 4.2: whitespace-delimited fragments, punctuation stripped from
\* both ends, folded to lowercase
Fragments(content) ==
    LET frags == split(content)
    IN [i \in 1..Len(frags) |-> lower(strip(frags[i], punctuation))]

\* section 4.2: the fragments that stripping leaves empty are dropped
Tokens(content) == SelectSeq(Fragments(content), LAMBDA w : w # <<>>)

\* section 4.2: the characters of the content, optionally folded,
\* optionally only the alphabetic ones
Characters(content, case_sensitive, letters_only) ==
    LET folded == IF case_sensitive THEN content ELSE lower(content)
    IN SelectSeq(folded, LAMBDA c : ~letters_only \/ isalpha(c))

NonIncreasing(l) == \A i, j \in 1..Len(l) : i < j => l[i][2] >= l[j][2]
NoRepeat(l) == \A i, j \in 1..Len(l) : i # j => l[i][1] # l[j][1]

\* the place where x is first met in q (0 when it is not in q)
FirstAt(x, q) ==
    IF \E i \in 1..Len(q) : q[i] = x
    THEN CHOOSE i \in 1..Len(q) : q[i] = x /\ \A j \in 1..(i - 1) : q[j] # x
    ELSE 0

\* w is what is left of o after deleting some of its characters
RECURSIVE IsSubsequence(_, _)
IsSubsequence(w, o) ==
    IF w = <<>> THEN TRUE
    ELSE IF o = <<>> THEN FALSE
    ELSE IF Head(w) = Head(o) THEN IsSubsequence(Tail(w), Tail(o))
    ELSE IsSubsequence(w, Tail(o))

\* the text of an element of the document, or the empty string
IsExtraction(w, o) == w = <<>> \/ IsSubsequence(w, o)

\* C1: char_distribution returns for every source kind (char, count) pairs
\* with non-increasing counts, no character twice, each count the number
\* of occurrences of the character in the folded / filtered content (here:
\* in every call that finds the file as it was at construction).
C1_CharDistribution ==
    (/\ pc = "live"
     /\ last.op = "char_distribution"
     /\ last.read \in {NotRead, self._orig_content}) =>
        /\ last.res.tag = "list"
        /\ LET l == last.res.val
               chars == Characters(self._orig_content, last.args[1], last.args[2])
           IN /\ NonIncreasing(l)
              /\ NoRepeat(l)
              /\ \A i \in 1..Len(l) : l[i][2] = Occurrences(l[i][1], chars)

\* C2: two calls of a statistics operation with the same arguments and no
\* set_content_to_tag or reset_content between them, both of which return,
\* return the same result, whatever happens to the file or page in between.
C2_Idempotent ==
    [][ (pc = "live" /\ last.op \in StatOps /\ last'.op = last.op
                     /\ last'.args = last.args
                     /\ last.res.tag # "error" /\ last'.res.tag # "error")
        => SameResult(last'.res, last.res) ]_vars

\* C3: for every source kind, word_count and distinct_word_count (here:
\* each call of either that returns) give integers with
\* word_count >= distinct_word_count >= 0, and distinct_word_count is the
\* number of unique case-folded, punctuation-stripped tokens.
C3_WordCounts ==
    (/\ pc = "live"
     /\ last.op \in {"word_count", "distinct_word_count"}
     /\ last.res.tag # "error") =>
        LET dwc == distinct_word_count(self).res
            toks == Fragments(self._orig_content)
        IN /\ last.res.tag = "int"
           /\ dwc.tag = "int"
           /\ dwc.val >= 0
           /\ dwc.val = Cardinality({toks[i] : i \in 1..Len(toks)})
           /\ last.op = "word_count" => last.res.val >= dwc.val
           /\ \A ext \in ExtNow :
                LET wc == word_count(self, ext).res
                IN wc.tag # "error" => (wc.tag = "int" /\ wc.val >= dwc.val)

\* C4: common_words(min_len, max_len, N) returns at most N (word, count)
\* pairs, each word uppercase and of a length in [min_len, max_len], each
\* count the number of tokens equal to the word, counts non-increasing,
\* ties in first-encountered order, and no token left out has a strictly
\* higher count than one returned.
C4_CommonWords ==
    (pc = "live" /\ last.op = "common_words") =>
        /\ last.res.tag = "list"
        /\ LET l == last.res.val
               minlen == last.args[1]
               maxlen == last.args[2]
               toks == Fragments(self._orig_content)
               up == [i \in 1..Len(toks) |-> upper(toks[i])]
               inRange(w) == minlen <= Len(w) /\ Len(w) <= maxlen
           IN /\ Len(l) <= last.args[3]
              /\ \A i \in 1..Len(l) :
                    /\ inRange(l[i][1])
                    /\ l[i][1] = upper(l[i][1])
                    /\ l[i][2] >= 1
                    /\ l[i][2] = Occurrences(l[i][1], up)
              /\ NonIncreasing(l)
              /\ \A i, j \in 1..Len(l) :
                    (i < j /\ l[i][2] = l[j][2])
                        => FirstAt(l[i][1], up) < FirstAt(l[j][1], up)
              /\ \A k \in 1..Len(up) :
                    (inRange(up[k]) /\ \A i \in 1..Len(l) : l[i][1] # up[k])
                        => \A i \in 1..Len(l) : Occurrences(up[k], up) <= l[i][2]

\* C5: positivity, when it returns, returns (positive matches - negative
\* matches) / word_count * 1000 over the tokens, word_count being what the
\* word_count operation returns; 0 when word_count is 0, and 0 when the
\* two match counts are equal.
C5_Positivity ==
    (pc = "live" /\ last.op = "positivity" /\ last.res.tag # "error") =>
        LET toks == Fragments(self._orig_content)
            p == Cardinality({i \in 1..Len(toks) : toks[i] \in last.args[1]})
            n == Cardinality({i \in 1..Len(toks) : toks[i] \in last.args[2]})
            wc == word_count(self, last.read).res
        IN /\ wc.tag = "int"
           /\ wc.val = 0 => (last.res.tag = "int" /\ last.res.val = 0)
           /\ wc.val > 0 => (last.res.tag = "permille" /\ last.res.val = <<p - n, wc.val>>)
           /\ p = n => \/ last.res.tag = "int" /\ last.res.val = 0
                       \/ last.res.tag = "permille" /\ last.res.val[1] = 0

\* positivity has scored a document with a positive and a negative match
C5_Witness ==
    /\ pc = "live"
    /\ last.op = "positivity"
    /\ last.res.tag = "permille"
    /\ last.res.val = <<0, 2>>
    /\ last.args = << {<<"a">>}, {<<"b">>} >>

\* C6: reset_content() followed by a statistics operation that returns
\* gives what the same operation returned right after construction.
C6_ResetRoundTrip ==
    [][ (pc = "live" /\ last.op = "reset_content" /\ last'.op \in StatOps
                     /\ last'.res.tag # "error")
        => SameResult(last'.res,
                      Call(born,
                           IF born._src_type = "text" THEN NotRead
                           ELSE born._orig_content,
                           last'.op, last'.args).res) ]_vars

HasUrlScheme(src) ==
    Len(src) >= 4 /\ src[1] = "h" /\ src[2] = "t" /\ src[3] = "t" /\ src[4] = "p"
HasTextExtension(src) ==
    LET n == Len(src)
    IN n >= 4 /\ src[n - 3] = "." /\ src[n - 2] = "t" /\ src[n - 1] = "x" /\ src[n] = "t"
HasPathSeparator(src) == \E i \in 1..Len(src) : src[i] \in {"/", "\\"}

\* C7: the effective kind is a total function of (src, declared kind):
\* under auto-discovery URL prefix, then text extension or path separator,
\* then inline text; a declared text / path / url is used as is; any other
\* declared kind raises and leaves no Analyzer; inline text always
\* constructs, with content = src.
C7_Resolution ==
    pc # "new" =>
        LET src == last.args[1]
            declared == last.args[2]
            expected == IF declared # "discover" THEN declared
                        ELSE IF HasUrlScheme(src) THEN "url"
                        ELSE IF HasTextExtension(src) \/ HasPathSeparator(src) THEN "path"
                        ELSE "text"
        IN /\ last.op = "__init__"
           /\ declared \notin {"text", "path", "url", "discover"} =>
                /\ pc = "failed"
                /\ self = NoSelf
                /\ last.res.tag = "error" /\ last.res.val = "ValueError"
           /\ declared \in {"text", "path", "url", "discover"} =>
                /\ pc = "live" => self._src_type = expected
                /\ pc = "failed" =>
                    /\ expected \in {"path", "url"}
                    /\ last.read = Missing
                    /\ last.res.tag = "error"
                    /\ last.res.val = IF expected = "path" THEN "ReadError"
                                      ELSE "RetrievalError"
           /\ expected = "text" =>
                /\ pc = "live"
                /\ self._content = src
                /\ self._orig_content = src

\* auto-discovery has made a file Analyzer of a source that holds "http"
\* but does not start with it
C7_Witness ==
    /\ pc = "live"
    /\ last.op = "__init__"
    /\ last.args[2] = "discover"
    /\ last.args[1] = <<"a", ".", "t", "x", "t", "/", "h", "t", "t", "p">>
    /\ self._src_type = "path"

\* C8: the original content never changes after construction, the working
\* content is the original content or an extraction from it, and right
\* after reset_content the two are equal, even when the file or page
\* changes after construction.
C8_DocumentInvariant ==
    pc = "live" =>
        /\ self._orig_content = born._orig_content
        /\ \/ self._content = self._orig_content
           \/ IsExtraction(self._content, self._orig_content)
        /\ last.op = "reset_content" => self._content = self._orig_content

\* C9: no token is empty: every token has a length of at least 1 and no
\* leading or trailing punctuation, and a fragment that is all punctuation
\* is counted neither by word_count, distinct_word_count, avg_word_length,
\* common_words (also with min_len = 0) nor by the divisor of positivity.
C9_NoEmptyToken ==
    (pc = "live" /\ last.res.tag # "error") =>
        LET toks == Tokens(self._orig_content)
            r == last.res
        IN /\ (last.op = "words" /\ r.tag = "list") =>
                \A i \in 1..Len(r.val) :
                    /\ Len(r.val[i]) >= 1
                    /\ r.val[i][1] \notin punctuation
                    /\ r.val[i][Len(r.val[i])] \notin punctuation
           /\ (last.op = "word_count" /\ r.tag = "int") => r.val = Len(toks)
           /\ (last.op = "distinct_word_count" /\ r.tag = "int") =>
                r.val = Cardinality({toks[i] : i \in 1..Len(toks)})
           /\ (last.op = "avg_word_length" /\ self._src_type # "url") =>
                r.val = IF toks = <<>> THEN 0 ELSE round2(SumLen(toks), Len(toks))
           /\ (last.op = "common_words" /\ r.tag = "list") =>
                \A i \in 1..Len(r.val) : r.val[i][1] # <<>>
           /\ (last.op = "positivity" /\ r.tag = "permille") => r.val[2] = Len(toks)

\* C10: an Analyzer built from a file or a URL returns, while the body
\* there is still the one it was built from, what an Analyzer built from
\* the same text inline returns, for common_words, char_distribution,
\* word_count, distinct_word_count and avg_word_length.
C10_SourceIndependence ==
    (/\ pc = "live"
     /\ self._src_type \in {"path", "url"}
     /\ last.op \in StatOps \ {"positivity"}
     /\ last.read \in {NotRead, self._orig_content}) =>
        SameResult(last.res,
                   Call(__init__(self._orig_content, "text", NotRead).self,
                        NotRead, last.op, last.args).res)

=============================================================================
